---------------------------- MODULE Spec2Model ----------------------------
(***************************************************************************)
(* Case-conversion utilities of the repository: toKebabCase, toDotCase,    *)
(* toCamelCase (refined_prompt.js), toCamelCase (few_shot_prompt.js) and   *)
(* convertToCamelCase (basic_prompt.js).                                   *)
(*                                                                         *)
(* A JavaScript string is a sequence of one-character strings.  A          *)
(* JavaScript value is a record with a tag and one payload field per kind  *)
(* of value.  Each regular expression of the source is an operator that    *)
(* scans the sequence the way the regex engine does (left to right,        *)
(* greedy, non-overlapping matches).                                       *)
(***************************************************************************)
EXTENDS Integers, Sequences, FiniteSets

VARIABLES input, pc, fn, arg, outcome, result, error

vars == <<input, pc, fn, arg, outcome, result, error>>

(***************************************************************************)
(* Bounds of the enumerated inputs.                                        *)
(***************************************************************************)
MaxLen == 5

Alphabet == {"a", "A", "B", "1", "_", "-", ".", " "}

(***************************************************************************)
(* Character classes of the regular expressions.                           *)
(***************************************************************************)
LowerLetters == <<"a", "b", "c", "d", "e", "f", "g", "h", "i", "j", "k", "l", "m",
                  "n", "o", "p", "q", "r", "s", "t", "u", "v", "w", "x", "y", "z">>

UpperLetters == <<"A", "B", "C", "D", "E", "F", "G", "H", "I", "J", "K", "L", "M",
                  "N", "O", "P", "Q", "R", "S", "T", "U", "V", "W", "X", "Y", "Z">>

DigitChars == <<"0", "1", "2", "3", "4", "5", "6", "7", "8", "9">>

\* [a-z]
LowerSet == {LowerLetters[i] : i \in 1..26}

\* [A-Z]
UpperSet == {UpperLetters[i] : i \in 1..26}

\* [0-9]
DigitSet == {DigitChars[i] : i \in 1..10}

\* [a-z0-9]  (left side of the lower-to-upper boundary)
LowerOrDigitSet == LowerSet \cup DigitSet

\* [A-Z0-9]
UpperOrDigitSet == UpperSet \cup DigitSet

\* [A-Za-z0-9], and [\p{L}\p{N}] restricted to ASCII
AlnumSet == LowerSet \cup UpperSet \cup DigitSet

\* \s, and the characters String.prototype.trim removes
WhitespaceSet == {" ", "\t", "\n", "\r"}

\* [_\s]   (toKebabCase)
UnderscoreSpaceSet == {"_"} \cup WhitespaceSet

\* [_\-\s]   (toCamelCase of refined_prompt.js)
CamelDelimSet == {"_", "-"} \cup WhitespaceSet

\* [._\-\s]   (toDotCase)
DotDelimSet == {".", "_", "-"} \cup WhitespaceSet

LowerOf == [c \in UpperSet |-> LowerLetters[CHOOSE i \in 1..26 : UpperLetters[i] = c]]

UpperOf == [c \in LowerSet |-> UpperLetters[CHOOSE i \in 1..26 : LowerLetters[i] = c]]

(***************************************************************************)
(* String built-ins.                                                       *)
(***************************************************************************)
\* String.prototype.toLowerCase
ToLowerCase(s) == [i \in 1..Len(s) |-> IF s[i] \in UpperSet THEN LowerOf[s[i]] ELSE s[i]]

\* String.prototype.toUpperCase
ToUpperCase(s) == [i \in 1..Len(s) |-> IF s[i] \in LowerSet THEN UpperOf[s[i]] ELSE s[i]]

\* String.prototype.slice(n): the string from 0-based index n on
Slice(s, n) == IF n >= Len(s) THEN <<>> ELSE SubSeq(s, n + 1, Len(s))

\* String.prototype.charAt(n): the character at 0-based index n, or ''
CharAt(s, n) == IF n < Len(s) THEN <<s[n + 1]>> ELSE <<>>

\* String.prototype.trim
Trim(s) ==
    LET keep == {i \in 1..Len(s) : s[i] \notin WhitespaceSet}
    IN  IF keep = {} THEN <<>>
        ELSE LET lo == CHOOSE i \in keep : \A j \in keep : i <= j
                 hi == CHOOSE i \in keep : \A j \in keep : j <= i
             IN  SubSeq(s, lo, hi)

\* RegExp.prototype.test for a one-character class: /[D]/.test(s)
TestAny(s, D) == \E i \in 1..Len(s) : s[i] \in D

\* /^[D]+$/.test(s)
TestAll(s, D) == Len(s) > 0 /\ \A i \in 1..Len(s) : s[i] \in D

\* The last index of the run of characters of D that starts at i (s[i] \in D).
RunEnd(s, D, i) ==
    CHOOSE j \in i..Len(s) :
        /\ \A k \in i..j : s[k] \in D
        /\ (j = Len(s) \/ s[j + 1] \notin D)

RECURSIVE SplitLoop(_, _, _, _, _)
SplitLoop(s, D, i, cur, acc) ==
    IF i > Len(s) THEN Append(acc, cur)
    ELSE IF s[i] \in D
         THEN SplitLoop(s, D, RunEnd(s, D, i) + 1, <<>>, Append(acc, cur))
         ELSE SplitLoop(s, D, i + 1, Append(cur, s[i]), acc)

\* s.split(/[D]+/): the pieces between runs of D, the empty pieces a leading
\* or trailing run produces included.
Split(s, D) == SplitLoop(s, D, 1, <<>>, <<>>)

\* Array.prototype.filter(Boolean) on an array of strings: drops the empty ones.
FilterBoolean(parts) == SelectSeq(parts, LAMBDA p : p # <<>>)

RECURSIVE ReplaceRunsLoop(_, _, _, _, _)
ReplaceRunsLoop(s, D, rep, i, out) ==
    IF i > Len(s) THEN out
    ELSE IF s[i] \in D
         THEN ReplaceRunsLoop(s, D, rep, RunEnd(s, D, i) + 1, out \o rep)
         ELSE ReplaceRunsLoop(s, D, rep, i + 1, Append(out, s[i]))

\* s.replace(/[D]+/g, rep)
ReplaceRuns(s, D, rep) == ReplaceRunsLoop(s, D, rep, 1, <<>>)

\* The ends k of the group ([A-Z]+) in a match of /([A-Z]+)([A-Z][a-z])/ at i.
AcronymMatches(s, i) ==
    {k \in i..(Len(s) - 2) :
        /\ \A j \in i..k : s[j] \in UpperSet
        /\ s[k + 1] \in UpperSet
        /\ s[k + 2] \in LowerSet}

RECURSIVE ReplaceAcronymLoop(_, _, _, _)
ReplaceAcronymLoop(s, sep, i, out) ==
    IF i > Len(s) THEN out
    ELSE LET ks == AcronymMatches(s, i)
         IN  IF ks # {}
             THEN LET k == CHOOSE x \in ks : \A y \in ks : y <= x
                  IN  ReplaceAcronymLoop(s, sep, k + 3,
                          out \o SubSeq(s, i, k) \o sep \o SubSeq(s, k + 1, k + 2))
             ELSE ReplaceAcronymLoop(s, sep, i + 1, Append(out, s[i]))

\* s.replace(/([A-Z]+)([A-Z][a-z])/g, '$1' + sep + '$2')
ReplaceAcronym(s, sep) == ReplaceAcronymLoop(s, sep, 1, <<>>)

RECURSIVE ReplaceLowerUpperLoop(_, _, _, _, _)
ReplaceLowerUpperLoop(s, L, sep, i, out) ==
    IF i > Len(s) THEN out
    ELSE IF s[i] \in L /\ i < Len(s) /\ s[i + 1] \in UpperSet
         THEN ReplaceLowerUpperLoop(s, L, sep, i + 2, out \o <<s[i]>> \o sep \o <<s[i + 1]>>)
         ELSE ReplaceLowerUpperLoop(s, L, sep, i + 1, Append(out, s[i]))

\* The same replacement with the class [a-z] for [a-z0-9].
ReplaceLowerUpperLettersOnly(s, sep) == ReplaceLowerUpperLoop(s, LowerSet, sep, 1, <<>>)

\* s.replace(/([a-z0-9])([A-Z])/g, '$1' + sep + '$2')
ReplaceLowerUpper(s, sep) == ReplaceLowerUpperLoop(s, LowerOrDigitSet, sep, 1, <<>>)

\* The edge trim left out.
StripEdgeHyphenOmitted(s) == s

\* s.replace(/^-|-$/g, ''): one hyphen at the start and one at the end.
StripEdgeHyphen(s) ==
    LET t == IF Len(s) > 0 /\ s[1] = "-" THEN Tail(s) ELSE s
    IN  IF Len(t) > 0 /\ t[Len(t)] = "-" THEN SubSeq(t, 1, Len(t) - 1) ELSE t

\* s.replace(/^\.+|\.+$/g, ''): the run of dots at the start and at the end.
StripEdgeDots(s) ==
    LET keep == {i \in 1..Len(s) : s[i] # "."}
    IN  IF keep = {} THEN <<>>
        ELSE LET lo == CHOOSE i \in keep : \A j \in keep : i <= j
                 hi == CHOOSE i \in keep : \A j \in keep : j <= i
             IN  SubSeq(s, lo, hi)

RECURSIVE Join(_, _)
\* Array.prototype.join(sep) on an array of strings
Join(parts, sep) ==
    IF parts = <<>> THEN <<>>
    ELSE IF Len(parts) = 1 THEN parts[1]
    ELSE parts[1] \o sep \o Join(Tail(parts), sep)

\* Array.prototype.map(part => part.toLowerCase())
MapToLowerCase(parts) == [i \in 1..Len(parts) |-> ToLowerCase(parts[i])]


(***************************************************************************)
(* JavaScript values.                                                      *)
(***************************************************************************)
JsValue(tag, chars, num, flag, items) ==
    [tag |-> tag, chars |-> chars, num |-> num, flag |-> flag, items |-> items]

StringValue(s) == JsValue("string", s, 0, FALSE, <<>>)

NullValue == JsValue("null", <<>>, 0, FALSE, <<>>)

UndefinedValue == JsValue("undefined", <<>>, 0, FALSE, <<>>)

NumberValue(n) == JsValue("number", <<>>, n, FALSE, <<>>)

BooleanValue(b) == JsValue("boolean", <<>>, 0, b, <<>>)

\* a plain object such as { a: 1 }
ObjectValue == JsValue("object", <<>>, 0, FALSE, <<>>)

\* an array of numbers
ArrayValue(xs) == JsValue("array", <<>>, 0, FALSE, xs)

\* typeof v
TypeOf(v) ==
    CASE v.tag = "string" -> "string"
      [] v.tag = "number" -> "number"
      [] v.tag = "boolean" -> "boolean"
      [] v.tag = "undefined" -> "undefined"
      [] OTHER -> "object"

RECURSIVE NumberToString(_)
\* String(n) for a non-negative integer n
NumberToString(n) ==
    IF n < 10 THEN <<DigitChars[n + 1]>>
    ELSE Append(NumberToString(n \div 10), DigitChars[(n % 10) + 1])

\* String(v)
StringOf(v) ==
    CASE v.tag = "string" -> v.chars
      [] v.tag = "number" -> NumberToString(v.num)
      [] v.tag = "boolean" -> IF v.flag THEN <<"t", "r", "u", "e">>
                                        ELSE <<"f", "a", "l", "s", "e">>
      [] v.tag = "null" -> <<"n", "u", "l", "l">>
      [] v.tag = "undefined" -> <<"u", "n", "d", "e", "f", "i", "n", "e", "d">>
      [] v.tag = "array" ->
            Join([i \in 1..Len(v.items) |-> NumberToString(v.items[i])], <<",">>)
      [] OTHER -> <<"[", "o", "b", "j", "e", "c", "t", " ",
                    "O", "b", "j", "e", "c", "t", "]">>

(***************************************************************************)
(* The outcome of a call: a returned string or a thrown error.             *)
(***************************************************************************)
NoError == [name |-> "", message |-> ""]

Return(s) == [outcome |-> "returned", value |-> s, error |-> NoError]

Throw(name, message) ==
    [outcome |-> "threw", value |-> <<>>, error |-> [name |-> name, message |-> message]]

(***************************************************************************)
(* toKebabCase                                                             *)
(***************************************************************************)
\* The last three steps with the edge trim ahead of the collapse of hyphens.
KebabNormalizeTrimFirst(s) ==
    ReplaceRuns(StripEdgeHyphen(ToLowerCase(ReplaceRuns(s, UnderscoreSpaceSet, <<"-">>))),
                {"-"}, <<"-">>)

\* The last three steps without the collapse of hyphens.
KebabNormalizeNoCollapse(s) ==
    StripEdgeHyphen(ToLowerCase(ReplaceRuns(s, UnderscoreSpaceSet, <<"-">>)))

\* .replace(/[_\s]+/g, '-').toLowerCase().replace(/-+/g, '-').replace(/^-|-$/g, '')
KebabNormalize(s) ==
    StripEdgeHyphen(
        ReplaceRuns(ToLowerCase(ReplaceRuns(s, UnderscoreSpaceSet, <<"-">>)),
                    {"-"}, <<"-">>))

\* the replace chain of the return statement
KebabChain(s) ==
    KebabNormalize(ReplaceLowerUpper(ReplaceAcronym(s, <<"-">>), <<"-">>))

toKebabCase(v) ==
    IF v.tag = "null" \/ v.tag = "undefined" \/ TypeOf(v) # "string"
    THEN Throw("Error", "Input must be a string")
    ELSE IF v.chars = <<>> THEN Return(<<>>)
    ELSE Return(KebabChain(v.chars))

(***************************************************************************)
(* toCamelCase and toDotCase of refined_prompt.js                          *)
(***************************************************************************)
\* The capitalisation with slice(2) for slice(1).
CapitalizeSliceTwo(p) == ToUpperCase(CharAt(p, 0)) \o Slice(p, 2)

\* p.charAt(0).toUpperCase() + p.slice(1)
Capitalize(p) == ToUpperCase(CharAt(p, 0)) \o Slice(p, 1)

\* first + rest.map(capitalise).join('')
CamelJoin(parts) ==
    parts[1] \o Join([i \in 1..(Len(parts) - 1) |-> Capitalize(parts[i + 1])], <<>>)

\* /^[A-Z][a-zA-Z0-9]*$/.test(s)
IsPascalCase(s) ==
    Len(s) > 0 /\ s[1] \in UpperSet /\ \A i \in 2..Len(s) : s[i] \in AlnumSet

\* /^[a-z][a-zA-Z0-9]*$/.test(s) && /[A-Z]/.test(s)
IsAlreadyCamelCase(s) ==
    /\ Len(s) > 0 /\ s[1] \in LowerSet /\ \A i \in 2..Len(s) : s[i] \in AlnumSet
    /\ TestAny(s, UpperSet)

RefinedCamelOfString(input0) ==
    LET str == Trim(input0)
    IN  IF str = <<>> THEN <<>>
        ELSE IF TestAny(str, CamelDelimSet)
        THEN LET parts == MapToLowerCase(FilterBoolean(Split(str, CamelDelimSet)))
             IN  IF Len(parts) = 0 THEN <<>> ELSE CamelJoin(parts)
        ELSE IF TestAll(str, UpperOrDigitSet) THEN ToLowerCase(str)
        ELSE IF IsPascalCase(str) THEN ToLowerCase(CharAt(str, 0)) \o Slice(str, 1)
        ELSE IF IsAlreadyCamelCase(str) THEN str
        ELSE ToLowerCase(str)

toCamelCase(v) ==
    IF v.tag = "null" \/ v.tag = "undefined"
    THEN Throw("TypeError", "Input must be a string")
    ELSE IF TypeOf(v) # "string"
    THEN Throw("TypeError", "Input must be a string")
    ELSE Return(RefinedCamelOfString(v.chars))

\* the two boundary replacements and the normalisation of the no-delimiter path
DotBoundaries(str) ==
    ToLowerCase(StripEdgeDots(
        ReplaceRuns(ReplaceLowerUpper(ReplaceAcronym(str, <<".">>), <<".">>),
                    {"."}, <<".">>)))

DotOfString(input0) ==
    LET str == Trim(input0)
    IN  IF str = <<>> THEN <<>>
        ELSE IF TestAny(str, DotDelimSet)
        THEN LET parts == MapToLowerCase(FilterBoolean(Split(str, DotDelimSet)))
             IN  IF Len(parts) = 0 THEN <<>> ELSE Join(parts, <<".">>)
        ELSE IF TestAll(str, UpperOrDigitSet) THEN ToLowerCase(str)
        ELSE DotBoundaries(str)

toDotCase(v) ==
    IF v.tag = "null" \/ v.tag = "undefined"
    THEN Throw("TypeError", "Input must be a string")
    ELSE IF TypeOf(v) # "string"
    THEN Throw("TypeError", "Input must be a string")
    ELSE Return(DotOfString(v.chars))

(***************************************************************************)
(* toCamelCase of few_shot_prompt.js                                       *)
(***************************************************************************)
RECURSIVE SplitBeforeUpperLoop(_, _, _, _, _)
SplitBeforeUpperLoop(s, L, i, cur, acc) ==
    IF i > Len(s) THEN Append(acc, cur)
    ELSE IF i > 1 /\ s[i - 1] \in L /\ s[i] \in UpperSet
         THEN SplitBeforeUpperLoop(s, L, i + 1, <<s[i]>>, Append(acc, cur))
         ELSE SplitBeforeUpperLoop(s, L, i + 1, Append(cur, s[i]), acc)

\* The same split with the lookbehind [a-z] for [a-z0-9].
SplitCamelBoundaryLettersOnly(s) == SplitBeforeUpperLoop(s, LowerSet, 1, <<>>, <<>>)

\* s.split(/(?<=[a-z0-9])(?=[A-Z])/)
SplitCamelBoundary(s) == SplitBeforeUpperLoop(s, LowerOrDigitSet, 1, <<>>, <<>>)

\* the complement of [A-Za-z0-9] among the characters of s
NonAlnumOf(s) == {s[i] : i \in 1..Len(s)} \ AlnumSet

FewShotParts(str) ==
    IF TestAny(str, NonAlnumOf(str)) THEN Split(str, NonAlnumOf(str))
    ELSE IF TestAny(str, LowerSet) /\ TestAny(str, UpperSet) THEN SplitCamelBoundary(str)
    ELSE <<str>>

fewShotToCamelCase(v) ==
    IF v.tag = "null" \/ v.tag = "undefined" THEN Return(<<>>)
    ELSE LET str == Trim(StringOf(v))
         IN  IF str = <<>> THEN Return(<<>>)
             ELSE LET parts == FilterBoolean(FewShotParts(str))
                  IN  IF Len(parts) = 0 THEN Return(<<>>)
                      ELSE Return(CamelJoin(MapToLowerCase(parts)))

(***************************************************************************)
(* convertToCamelCase of basic_prompt.js                                   *)
(***************************************************************************)
\* input.match(/[\p{L}\p{N}]+/gu): the maximal alphanumeric runs (<<>> for null)
MatchWords(s) == FilterBoolean(Split(s, NonAlnumOf(s)))

convertToCamelCase(v) ==
    IF TypeOf(v) # "string" THEN Return(<<>>)
    ELSE LET words == MatchWords(v.chars)
         IN  IF Len(words) = 0 THEN Return(<<>>)
             ELSE Return(ToLowerCase(words[1]) \o
                    Join([i \in 1..(Len(words) - 1) |->
                             Capitalize(ToLowerCase(words[i + 1]))], <<>>))

(***************************************************************************)
(* Inputs: every string over Alphabet up to MaxLen, the strings of the     *)
(* self-test table and of the documented examples, and the non-strings.    *)
(***************************************************************************)
BoundedStrings == UNION {[1..n -> Alphabet] : n \in 0..MaxLen}

ExFirstName == <<"f", "i", "r", "s", "t", "N", "a", "m", "e">>
ExUserUnderscoreId == <<"u", "s", "e", "r", "_", "i", "d">>
ExScreenName == <<"S", "C", "R", "E", "E", "N", "_", "N", "A", "M", "E">>
ExPascalCase == <<"P", "a", "s", "c", "a", "l", "C", "a", "s", "e">>
ExXMLHttpRequest == <<"X", "M", "L", "H", "t", "t", "p", "R", "e", "q", "u", "e", "s", "t">>
ExUserID == <<"u", "s", "e", "r", "I", "D">>
ExMultipleDelimiters ==
    <<"-", "-", "m", "u", "l", "t", "i", "p", "l", "e", "_", "_", "d", "e", "l", "i",
      "m", "i", "t", "e", "r", "s", " ", " ", "t", "e", "s", "t", "-", "-">>
ExLeadingTrailing ==
    <<" ", " ", "l", "e", "a", "d", "i", "n", "g", " ", "t", "r", "a", "i", "l", "i",
      "n", "g", " ", " ">>
ExAlreadyKebab ==
    <<"-", "-", "-", "a", "l", "r", "e", "a", "d", "y", "-", "-", "k", "e", "b", "a",
      "b", "-", "-", "-">>
ExID42 == <<"I", "D", "4", "2">>
ExUserID2 == <<"u", "s", "e", "r", "I", "D", "2">>
ExAlreadyDotCase ==
    <<"a", "l", "r", "e", "a", "d", "y", ".", "d", "o", "t", ".", "c", "a", "s", "e">>
ExFooBarBaz == <<" ", " ", "F", "o", "o", "-", "B", "A", "R", "_", "b", "a", "z", " ", " ">>
ExWhitespace == <<"\t", "\n", " ">>

cases ==
    {ExFirstName, ExUserUnderscoreId, ExScreenName, ExPascalCase, ExXMLHttpRequest,
     ExUserID, <<>>, ExMultipleDelimiters, ExLeadingTrailing, ExAlreadyKebab}

DocumentedExamples == {ExID42, ExUserID2, ExAlreadyDotCase, ExFooBarBaz}

\* [null, undefined, 123, { a: 1 }]
invalids == {NullValue, UndefinedValue, NumberValue(123), ObjectValue}

\* The other kinds of non-string: booleans and arrays.
OtherNonStrings ==
    {BooleanValue(TRUE), BooleanValue(FALSE), ArrayValue(<<>>), ArrayValue(<<1, 2>>)}

Inputs ==
    {StringValue(s) :
        s \in BoundedStrings \cup cases \cup DocumentedExamples \cup {ExWhitespace}}
        \cup invalids \cup OtherNonStrings

FunctionNames ==
    {"toKebabCase", "toDotCase", "toCamelCase", "fewShotToCamelCase", "convertToCamelCase"}

(***************************************************************************)
(* The state machine: a caller picks an input, calls one conversion on it  *)
(* and, when it returned, calls the same conversion on what it returned.   *)
(***************************************************************************)
TypeOK ==
    /\ input \in Inputs
    /\ pc \in {"ready", "once", "twice"}
    /\ fn \in FunctionNames \cup {""}
    /\ arg.tag \in {"string", "null", "undefined", "number", "boolean", "object", "array"}
    /\ outcome \in {"none", "returned", "threw"}
    /\ error.name \in {"", "Error", "TypeError"}

Init ==
    /\ input \in Inputs
    /\ pc = "ready"
    /\ fn = ""
    /\ arg = input
    /\ outcome = "none"
    /\ result = <<>>
    /\ error = NoError

\* The conversion f may be called: first on the input, then on its own result.
CanCall(f) == pc = "ready" \/ (pc = "once" /\ fn = f /\ outcome = "returned")

\* The argument of the next call.
NextArg == IF pc = "ready" THEN input ELSE StringValue(result)

\* The call of f on NextArg ended with r.
Finish(f, r) ==
    /\ fn' = f
    /\ arg' = NextArg
    /\ pc' = IF pc = "ready" THEN "once" ELSE "twice"
    /\ outcome' = r.outcome
    /\ result' = r.value
    /\ error' = r.error
    /\ UNCHANGED input

CallToKebabCase ==
    /\ CanCall("toKebabCase")
    /\ Finish("toKebabCase", toKebabCase(NextArg))

CallToDotCase ==
    /\ CanCall("toDotCase")
    /\ Finish("toDotCase", toDotCase(NextArg))

CallToCamelCase ==
    /\ CanCall("toCamelCase")
    /\ Finish("toCamelCase", toCamelCase(NextArg))

CallFewShotToCamelCase ==
    /\ CanCall("fewShotToCamelCase")
    /\ Finish("fewShotToCamelCase", fewShotToCamelCase(NextArg))

CallConvertToCamelCase ==
    /\ CanCall("convertToCamelCase")
    /\ Finish("convertToCamelCase", convertToCamelCase(NextArg))

Next ==
    \/ CallToKebabCase
    \/ CallToDotCase
    \/ CallToCamelCase
    \/ CallFewShotToCamelCase
    \/ CallConvertToCamelCase

Spec == Init /\ [][Next]_vars

(***************************************************************************)
(* Vocabulary of the properties.                                           *)
(***************************************************************************)
\* The first call of f has ended (arg = input).
FirstCallOf(f) == pc = "once" /\ fn = f

\* The second call of f, on the result of the first, has ended.
SecondCallOf(f) == pc = "twice" /\ fn = f

IsStringInput == input.tag = "string"

CamelConverters == {"toCamelCase", "fewShotToCamelCase"}

\* s is made of letters and digits only and has both a lowercase and an
\* uppercase letter.
DelimiterFreeMixedCase(s) ==
    /\ \A i \in 1..Len(s) : s[i] \in AlnumSet
    /\ \E i \in 1..Len(s) : s[i] \in LowerSet
    /\ \E i \in 1..Len(s) : s[i] \in UpperSet

\* The alphanumeric characters of s, in order, lowercased.
LowerAlnum(s) == ToLowerCase(SelectSeq(s, LAMBDA c : c \in AlnumSet))

\* A camel boundary lies before position i: s[i-1] is a lowercase letter or
\* a digit and s[i] an uppercase letter.
CamelBoundaryBefore(s, i) ==
    i > 1 /\ s[i - 1] \in LowerOrDigitSet /\ s[i] \in UpperSet

\* An acronym boundary lies before position i: s[i] is an uppercase letter
\* followed by a lowercase letter and preceded by an uppercase letter.
AcronymBoundaryBefore(s, i) ==
    /\ i > 1 /\ i < Len(s)
    /\ s[i - 1] \in UpperSet /\ s[i] \in UpperSet /\ s[i + 1] \in LowerSet

\* s with every character lowercased except the one after a camel boundary.
CamelByBoundaries(s) ==
    [i \in 1..Len(s) |->
        IF CamelBoundaryBefore(s, i) THEN s[i]
        ELSE IF s[i] \in UpperSet THEN LowerOf[s[i]] ELSE s[i]]

RECURSIVE SeparatedFrom(_, _, _)
SeparatedFrom(s, sep, i) ==
    IF i > Len(s) THEN <<>>
    ELSE (IF CamelBoundaryBefore(s, i) \/ AcronymBoundaryBefore(s, i)
          THEN <<sep>> ELSE <<>>)
         \o (IF s[i] \in UpperSet THEN <<LowerOf[s[i]]>> ELSE <<s[i]>>)
         \o SeparatedFrom(s, sep, i + 1)

\* s lowercased, with sep at the camel and acronym boundaries and nowhere else.
SeparatedAtBoundaries(s, sep) == SeparatedFrom(s, sep, 1)

RECURSIVE SegmentsFrom(_, _, _, _)
SegmentsFrom(s, D, i, cur) ==
    IF i > Len(s) THEN (IF cur = <<>> THEN <<>> ELSE <<cur>>)
    ELSE IF s[i] \in D
         THEN (IF cur = <<>> THEN <<>> ELSE <<cur>>) \o SegmentsFrom(s, D, i + 1, <<>>)
         ELSE SegmentsFrom(s, D, i + 1,
                 Append(cur, IF s[i] \in UpperSet THEN LowerOf[s[i]] ELSE s[i]))

\* The non-empty pieces of s between runs of characters of D, lowercased.
DelimiterSegments(s, D) == SegmentsFrom(s, D, 1, <<>>)

\* The delimiter set each conversion recognises.
DelimitersOf(f) ==
    CASE f = "toDotCase" -> DotDelimSet
      [] OTHER -> CamelDelimSet

RECURSIVE FormatFrom(_, _, _)
FormatFrom(f, segs, i) ==
    IF i > Len(segs) THEN <<>>
    ELSE (CASE i = 1 -> segs[i]
            [] i > 1 /\ f = "toKebabCase" -> <<"-">> \o segs[i]
            [] i > 1 /\ f = "toDotCase" -> <<".">> \o segs[i]
            [] OTHER -> <<IF segs[i][1] \in LowerSet THEN UpperOf[segs[i][1]]
                          ELSE segs[i][1]>> \o Tail(segs[i]))
         \o FormatFrom(f, segs, i + 1)

\* The segments joined in the target format of f: by "-", by ".", or with the
\* first character of every segment but the first in uppercase.
FormatSegments(f, segs) == FormatFrom(f, segs, 1)

KebabOfMultipleDelimiters ==
    <<"m", "u", "l", "t", "i", "p", "l", "e", "-", "d", "e", "l", "i", "m", "i", "t",
      "e", "r", "s", "-", "t", "e", "s", "t">>

DotOfXMLHttpRequest ==
    <<"x", "m", "l", ".", "h", "t", "t", "p", ".", "r", "e", "q", "u", "e", "s", "t">>

KebabOfXMLHttpRequest ==
    <<"x", "m", "l", "-", "h", "t", "t", "p", "-", "r", "e", "q", "u", "e", "s", "t">>

CamelOfUserID == <<"u", "s", "e", "r", "I", "d">>

CamelOfFooBarBaz == <<"f", "o", "o", "B", "a", "r", "B", "a", "z">>

(***************************************************************************)
(* Properties.                                                             *)
(***************************************************************************)
\* C1: for every non-string input, every conversion function throws an error
\* with the message "Input must be a string" and returns no result.
C1_NonStringThrows ==
    (pc = "once" /\ ~IsStringInput) =>
        /\ outcome = "threw"
        /\ error.message = "Input must be a string"
        /\ result = <<>>

\* C2: for an empty or whitespace-only string, toKebabCase, toDotCase and
\* toCamelCase (both of them) return the empty string and throw nothing.
C2_BlankGivesEmpty ==
    (/\ pc = "once"
     /\ fn \in {"toKebabCase", "toDotCase"} \cup CamelConverters
     /\ IsStringInput
     /\ \A i \in 1..Len(input.chars) : input.chars[i] \in WhitespaceSet)
        => (outcome = "returned" /\ result = <<>>)

C2_Witness ==
    /\ FirstCallOf("toKebabCase")
    /\ input = StringValue(ExWhitespace)
    /\ outcome = "returned"
    /\ result = <<>>

\* C3: toCamelCase is idempotent: applied to its own result it returns that
\* result unchanged.
C3_CamelIdempotent ==
    (pc = "twice" /\ fn \in CamelConverters) =>
        (outcome = "returned" /\ result = arg.chars)

\* C4: toKebabCase and toDotCase are idempotent: applied to its own result
\* each returns that result unchanged.
C4_KebabDotIdempotent ==
    (pc = "twice" /\ fn \in {"toKebabCase", "toDotCase"}) =>
        (outcome = "returned" /\ result = arg.chars)

C4_Witness ==
    /\ SecondCallOf("toDotCase")
    /\ input = StringValue(ExXMLHttpRequest)
    /\ arg = StringValue(DotOfXMLHttpRequest)
    /\ result = DotOfXMLHttpRequest

\* C5: a non-empty string of uppercase letters and digits only is one segment
\* for every conversion function: the result is the string lowercased, with no
\* separator between digits and letters in either order.
C5_AllCapsOneSegment ==
    (/\ pc = "once"
     /\ IsStringInput
     /\ input.chars # <<>>
     /\ \A i \in 1..Len(input.chars) : input.chars[i] \in UpperOrDigitSet)
        => (outcome = "returned" /\ result = ToLowerCase(input.chars))

\* C6 as stated: for a delimiter-free, mixed-case string, toCamelCase (of
\* refined_prompt.js and of few_shot_prompt.js) puts a boundary between every
\* lowercase letter or digit and a following uppercase letter, gives the first
\* segment in lowercase and every later one capitalised; 'userID' -> 'userId'.
C6_CamelBoundaries ==
    (/\ pc = "once"
     /\ fn \in CamelConverters
     /\ IsStringInput
     /\ DelimiterFreeMixedCase(input.chars))
        => (outcome = "returned" /\ result = CamelByBoundaries(input.chars))

\* C6 amended: the boundary rule holds of toCamelCase of few_shot_prompt.js,
\* whose result for 'userID' is 'userId'; toCamelCase of refined_prompt.js
\* returns 'userID' unchanged.
C6_FewShotCamelBoundaries ==
    /\ (/\ FirstCallOf("fewShotToCamelCase")
        /\ IsStringInput
        /\ DelimiterFreeMixedCase(input.chars))
           => (outcome = "returned" /\ result = CamelByBoundaries(input.chars))
    /\ (FirstCallOf("fewShotToCamelCase") /\ input = StringValue(ExUserID))
           => result = CamelOfUserID
    /\ (FirstCallOf("toCamelCase") /\ input = StringValue(ExUserID))
           => result = ExUserID

C6_Witness ==
    /\ FirstCallOf("fewShotToCamelCase")
    /\ input = StringValue(ExUserID)
    /\ result = CamelOfUserID

\* C7: for a string over letters, digits, underscore, hyphen and whitespace,
\* the result of toKebabCase has no underscore, no whitespace, no uppercase
\* letter, no two hyphens in a row and no hyphen at either end;
\* '--multiple__delimiters  test--' -> 'multiple-delimiters-test'.
C7_KebabShape ==
    (/\ FirstCallOf("toKebabCase")
     /\ IsStringInput
     /\ \A i \in 1..Len(input.chars) :
            input.chars[i] \in AlnumSet \cup {"_", "-"} \cup WhitespaceSet)
        => /\ outcome = "returned"
           /\ \A i \in 1..Len(result) :
                  result[i] \notin {"_"} \cup WhitespaceSet \cup UpperSet
           /\ \A i \in 1..(Len(result) - 1) : ~(result[i] = "-" /\ result[i + 1] = "-")
           /\ result # <<>> => (result[1] # "-" /\ result[Len(result)] # "-")
           /\ input.chars = ExMultipleDelimiters => result = KebabOfMultipleDelimiters

C7_Witness ==
    /\ FirstCallOf("toKebabCase")
    /\ input = StringValue(ExMultipleDelimiters)
    /\ result = KebabOfMultipleDelimiters

\* C8: for a delimiter-free, mixed-case string, toDotCase and toKebabCase put
\* their separator exactly at the acronym boundaries and the camel boundaries
\* and lowercase the rest; 'XMLHttpRequest' -> 'xml.http.request' and
\* 'xml-http-request'.
C8_SeparatorsAtBoundaries ==
    /\ (/\ pc = "once"
        /\ fn \in {"toKebabCase", "toDotCase"}
        /\ IsStringInput
        /\ DelimiterFreeMixedCase(input.chars))
           => /\ outcome = "returned"
              /\ result = SeparatedAtBoundaries(input.chars,
                              IF fn = "toDotCase" THEN "." ELSE "-")
    /\ (FirstCallOf("toDotCase") /\ input = StringValue(ExXMLHttpRequest))
           => result = DotOfXMLHttpRequest
    /\ (FirstCallOf("toKebabCase") /\ input = StringValue(ExXMLHttpRequest))
           => result = KebabOfXMLHttpRequest

C8_Witness ==
    /\ FirstCallOf("toKebabCase")
    /\ input = StringValue(ExXMLHttpRequest)
    /\ result = KebabOfXMLHttpRequest

\* C9: when the trimmed input has a delimiter (underscore, hyphen, whitespace;
\* also dot for toDotCase), the segments of toKebabCase, toDotCase and
\* toCamelCase are exactly the non-empty pieces between runs of delimiters,
\* lowercased, with no boundary at a case transition inside a piece.
C9_DelimiterRuleOnly ==
    (/\ pc = "once"
     /\ fn \in {"toKebabCase", "toDotCase", "toCamelCase"}
     /\ IsStringInput
     /\ \E i \in 1..Len(Trim(input.chars)) : Trim(input.chars)[i] \in DelimitersOf(fn))
        => /\ outcome = "returned"
           /\ result = FormatSegments(fn,
                           DelimiterSegments(Trim(input.chars), DelimitersOf(fn)))

\* C10: for a string over letters, digits, underscore, hyphen, dot and
\* whitespace, the alphanumeric characters of the result of toKebabCase,
\* toDotCase and toCamelCase, lowercased, are those of the input, lowercased,
\* in the same order.
C10_AlnumPreserved ==
    (/\ pc = "once"
     /\ fn \in {"toKebabCase", "toDotCase"} \cup CamelConverters
     /\ IsStringInput)
        => (outcome = "returned" /\ LowerAlnum(result) = LowerAlnum(input.chars))

C10_Witness ==
    /\ FirstCallOf("toCamelCase")
    /\ input = StringValue(ExFooBarBaz)
    /\ result = CamelOfFooBarBaz

=============================================================================
